---- MODULE Spec2Model ----
(***************************************************************************)
(* A model of llvm-select (src/llvm-select.py): the version-string parser  *)
(* and the per-version archive rules (LLVMVersionDetails), the installer   *)
(* (LLVMBuilder), the version registry (LLVMSelect) and the command-line   *)
(* dispatch (__main__).                                                    *)
(*                                                                         *)
(* Strings are sequences of tokens.  Every character that the code's       *)
(* split('.'), int() or re.match can tell apart -- each digit, '.', '-',   *)
(* '+' -- is a token of its own; a run of letters ("Release", "src") may   *)
(* be written as one token.  Python's None is the empty sequence, and an   *)
(* optional integer n is <<n>>.                                            *)
(***************************************************************************)
EXTENDS Integers, Sequences, FiniteSets, TLC

VARIABLES
    platform,       \* platform.system() of the host
    versionString,  \* the version string given to fromVersionString / args.version
    version,        \* the LLVMVersionDetails parsed from it, or None
    canonical,      \* str(version), once taken
    reparsed,       \* fromVersionString(str(version)), once taken
    prev,           \* the LLVMVersionDetails of the previous call of the parser
    pc,             \* position of the running program
    args,           \* the parsed command line of the running invocation
    exitCode,       \* the exit code of the invocation (read once pc = "done")
    cwd,            \* the entries of the working directory: [name, kind]
    srcTree,        \* the sub-paths present inside ./llvm-src
    root,           \* the entries of the installation root: [name, kind]
    pointer,        \* what the well-known llvm-config path routes to, or None
    before,         \* root, cwd, srcTree and pointer when the invocation began
    procs,          \* the external processes the invocation has run, in order
    exits,          \* the exit code of each of procs
    output,         \* what the invocation reported: the versions listed, the install path
    locals,         \* local variables of download() and build()
    invocations     \* number of invocations begun

parserVars == <<versionString, version, canonical, reparsed, prev>>

cliVars ==
    <<args, exitCode, cwd, srcTree, root, pointer, before, procs, exits, output,
      locals,
      invocations>>

vars == <<platform, parserVars, pc, cliVars>>

None == <<>>

(***************************************************************************)
(* Bounds of the model.                                                    *)
(***************************************************************************)
\* version components given as plain decimal numbers range over 0..MaxNum
MaxNum == 10
\* a version string has 1..MaxComponents dot-separated components
MaxComponents == 4
\* the components of the version strings given to consecutive parser calls
\* range over MinPairNum..MaxPairNum
MaxPairNum == 4
\* the command-line invocations made one after the other
MaxInvocations == 1

(***************************************************************************)
(* Python primitives used by the code: str(int), int(str), str.split.      *)
(***************************************************************************)
DigitChars == <<"0", "1", "2", "3", "4", "5", "6", "7", "8", "9">>

IsDigit(c) == \E i \in 1..Len(DigitChars) : DigitChars[i] = c

DigitVal(c) == (CHOOSE i \in 1..Len(DigitChars) : DigitChars[i] = c) - 1

\* str(n) for an integer n: decimal digits, no leading zeros, '-' if negative
RECURSIVE PyStr(_)
PyStr(n) ==
    IF n < 0 THEN <<"-">> \o PyStr(0 - n)
    ELSE IF n < 10 THEN <<DigitChars[n + 1]>>
    ELSE PyStr(n \div 10) \o <<DigitChars[(n % 10) + 1]>>

\* the value of a non-empty run of decimal digits
RECURSIVE DigitsVal(_)
DigitsVal(s) ==
    IF Len(s) = 1 THEN DigitVal(s[1])
    ELSE 10 * DigitsVal(SubSeq(s, 1, Len(s) - 1)) + DigitVal(s[Len(s)])

\* int(s): <<n>> for an optional sign followed by one or more digits, None
\* where Python raises ValueError
PyInt(s) ==
    LET signed == s # <<>> /\ s[1] \in {"+", "-"}
        body   == IF signed THEN Tail(s) ELSE s
    IN IF body = <<>> \/ \E i \in 1..Len(body) : ~IsDigit(body[i]) THEN None
       ELSE IF signed /\ s[1] = "-" THEN <<0 - DigitsVal(body)>>
       ELSE <<DigitsVal(body)>>

\* s.split(sep): the pieces of s between the occurrences of sep, empty ones kept
RECURSIVE PySplit(_, _)
PySplit(s, sep) ==
    IF \A i \in 1..Len(s) : s[i] # sep THEN <<s>>
    ELSE LET i == CHOOSE k \in 1..Len(s) :
                      s[k] = sep /\ \A j \in 1..(k - 1) : s[j] # sep
         IN <<SubSeq(s, 1, i - 1)>> \o PySplit(SubSeq(s, i + 1, Len(s)), sep)

(***************************************************************************)
(* LLVMVersionDetails                                                      *)
(***************************************************************************)
sLLVM       == <<"llvm">>
sClang      == <<"clang">>
sCfe        == <<"cfe">>
sCompilerRt == <<"compiler", "-", "rt">>
sLibcxx     == <<"libcxx">>

\* the keys of self.tarballs, in insertion (iteration) order
TarballNames == <<sLLVM, sClang, sCompilerRt, sLibcxx>>

Platforms == {"Linux", "Darwin", "Windows"}

\* a __str__ that forgets the revision
toStr_NoRevision(self) == PyStr(self.major) \o <<".">> \o PyStr(self.minor)

\* __str__
toStr(self) ==
    LET s == PyStr(self.major) \o <<".">> \o PyStr(self.minor)
    IN IF self.revision # None THEN s \o <<".">> \o PyStr(self.revision[1]) ELSE s

\* the .src.tar.gz band ending one minor version early
determineExtenion_EarlyXz(self) ==
    IF self.major = 2 /\ self.minor > 6 THEN <<".", "tgz">>
    ELSE IF (self.major = 2 /\ self.minor = 6) \/ (self.major = 3 /\ self.minor = 0)
        THEN <<".", "tar", ".", "gz">>
    ELSE IF self.major = 3 /\ self.minor < 4 THEN <<".", "src", ".", "tar", ".", "gz">>
    ELSE <<".", "src", ".", "tar", ".", "xz">>

determineExtenion(self) ==
    IF self.major = 2 /\ self.minor > 6 THEN <<".", "tgz">>
    ELSE IF (self.major = 2 /\ self.minor = 6) \/ (self.major = 3 /\ self.minor = 0)
        THEN <<".", "tar", ".", "gz">>
    ELSE IF self.major = 3 /\ self.minor < 5 THEN <<".", "src", ".", "tar", ".", "gz">>
    ELSE <<".", "src", ".", "tar", ".", "xz">>

\* a single threshold at 3.3, without the exception for 3.4
ClangTarball_SingleThreshold(self) ==
    IF self.major < 3 \/ (self.major = 3 /\ self.minor < 3) THEN sClang ELSE sCfe

ClangTarball(self) ==
    IF self.major < 3
       \/ (self.major = 3
           /\ (self.minor < 3 \/ (self.minor = 4 /\ self.revision = None)))
    THEN sClang ELSE sCfe

\* compiler-rt without the check of the host platform
CompilerRtTarball_AnyPlatform(self) ==
    IF self.major > 3 \/ (self.major = 3 /\ self.minor >= 1) THEN sCompilerRt ELSE None

CompilerRtTarball(self) ==
    IF platform # "Windows" /\ (self.major > 3 \/ (self.major = 3 /\ self.minor >= 1))
    THEN sCompilerRt ELSE None

\* libc++ without the case of a major version above 3
LibcxxTarball_Major3Only(self) ==
    IF platform = "Darwin" /\ (self.major = 3 /\ self.minor >= 3) THEN sLibcxx ELSE None

LibcxxTarball(self) ==
    IF platform = "Darwin" /\ (self.major > 3 \/ (self.major = 3 /\ self.minor >= 3))
    THEN sLibcxx ELSE None

listTarballs(self) ==
    [t \in {TarballNames[i] : i \in 1..Len(TarballNames)} |->
        IF t = sLLVM THEN sLLVM
        ELSE IF t = sClang THEN ClangTarball(self)
        ELSE IF t = sCompilerRt THEN CompilerRtTarball(self)
        ELSE LibcxxTarball(self)]

\* __init__ and _populateFields
LLVMVersionDetails(major, minor, revision) ==
    LET self == [major |-> major, minor |-> minor, revision |-> revision]
    IN [major     |-> major,
        minor     |-> minor,
        revision  |-> revision,
        extension |-> determineExtenion(self),
        tarballs  |-> listTarballs(self)]

tarballVersionString(self, tarballName) ==
    IF tarballName \in {sCompilerRt, sLibcxx} /\ (self.major = 3 /\ self.minor = 4)
    THEN PyStr(self.major) \o <<".">> \o PyStr(self.minor)
    ELSE toStr(self)

tarballFilename(self, tarballName) ==
    LET tarball == self.tarballs[tarballName]
    IN IF tarball # None
       THEN tarball \o <<"-">> \o tarballVersionString(self, tarballName) \o self.extension
       ELSE None

ReleasesURL == <<"http://llvm.org/releases/">>

tarballURL(self, tarballName) ==
    IF self.tarballs[tarballName] = None THEN None
    ELSE ReleasesURL \o tarballVersionString(self, tarballName) \o <<"/">>
             \o tarballFilename(self, tarballName)

fromVersionString_NoMinimum(s) ==
    LET comps == PySplit(s, ".")
        ints  == [i \in 1..Len(comps) |-> PyInt(comps[i])]
    IN IF \E i \in 1..Len(ints) : ints[i] = None THEN None
       ELSE LET v == [i \in 1..Len(ints) |-> ints[i][1]]
            IN IF Len(v) < 2 \/ Len(v) > 3 THEN None
               ELSE IF \E i \in 1..Len(v) : v[i] < 0 THEN None
               ELSE IF Len(v) = 3 /\ (v[1] < 3 \/ (v[1] = 3 /\ v[2] < 4)) THEN None
               ELSE IF Len(v) = 2 /\ (v[1] > 3 \/ (v[1] = 3 /\ v[2] > 4)) THEN None
               ELSE LLVMVersionDetails(v[1], v[2], IF Len(v) = 3 THEN <<v[3]>> ELSE None)

fromVersionString(s) ==
    LET comps == PySplit(s, ".")
        ints  == [i \in 1..Len(comps) |-> PyInt(comps[i])]
    IN IF \E i \in 1..Len(ints) : ints[i] = None THEN None
       ELSE LET v == [i \in 1..Len(ints) |-> ints[i][1]]
            IN IF Len(v) < 2 \/ Len(v) > 3 THEN None
               ELSE IF \E i \in 1..Len(v) : v[i] < 0 THEN None
               ELSE IF v[1] < 2 \/ (v[1] = 2 /\ v[2] < 6) THEN None
               ELSE IF Len(v) = 3 /\ (v[1] < 3 \/ (v[1] = 3 /\ v[2] < 4)) THEN None
               ELSE IF Len(v) = 2 /\ (v[1] > 3 \/ (v[1] = 3 /\ v[2] > 4)) THEN None
               ELSE LLVMVersionDetails(v[1], v[2], IF Len(v) = 3 THEN <<v[3]>> ELSE None)

(***************************************************************************)
(* The file system.  A directory's content is a set of entries; calls made *)
(* by the interpreter itself (unlink, rmtree, makedirs, move) fail only    *)
(* for what the modelled state holds, external processes may exit with any *)
(* code.                                                                   *)
(***************************************************************************)
Entry(name, kind) == [name |-> name, kind |-> kind]

Exists(dir, name) == \E e \in dir : e.name = name

\* Utility.removeIfExists, on an entry of the directory dir
removeIfExists(dir, item) == {e \in dir : e.name # item}

(***************************************************************************)
(* LLVMBuilder                                                             *)
(***************************************************************************)
CmakeBuildTypes == <<<<"Release">>, <<"Debug">>, <<"RelWithDebInfo">>, <<"MinSizeRel">>>>

BuildTypeSet == {CmakeBuildTypes[i] : i \in 1..Len(CmakeBuildTypes)}

\* the staging directory of a tarball: tarballName + '-src'
SrcDir(tarballName) == tarballName \o <<"-", "src">>

PresentTarballs(v) ==
    {TarballNames[i] : i \in {j \in 1..Len(TarballNames) : v.tarballs[TarballNames[j]] # None}}

\* the index of the first tarball after the i-th that the version has, 0 if none
NextTarball(v, i) ==
    LET later == {j \in (i + 1)..Len(TarballNames) : v.tarballs[TarballNames[j]] # None}
    IN IF later = {} THEN 0 ELSE CHOOSE j \in later : \A k \in later : j <= k

\* the working directory and ./llvm-src after LLVMBuilder.cleanupFiles(v)
cleanupFiles(v) ==
    [cwd     |-> {e \in cwd :
                    e.name \notin UNION {{tarballFilename(v, t), SrcDir(t)} :
                                            t \in PresentTarballs(v)}},
     srcTree |-> IF sLLVM \in PresentTarballs(v) THEN {} ELSE srcTree]

(***************************************************************************)
(* LLVMSelect                                                              *)
(***************************************************************************)
osSep == IF platform = "Windows" THEN <<"\\">> ELSE <<"/">>

getInstallationDir ==
    IF platform = "Windows" THEN <<"ScriptRoot\\versions">> ELSE <<"/usr/local/llvm">>

\* the name of an installed version's directory: version + '-' + buildType
VersionDirName(llvmVersion, buildType) == llvmVersion \o <<"-">> \o buildType

\* installDir of LLVMBuilder.build
InstallDir(v, buildType) ==
    getInstallationDir \o osSep \o VersionDirName(toStr(v), buildType)

\* group(1) of re.match('[0-9]\\..+-(.+)', itemName); None when it does not match
ReGroup1(itemName) ==
    LET ks == {k \in 4..(Len(itemName) - 1) : itemName[k] = "-"}
    IN IF Len(itemName) >= 5 /\ IsDigit(itemName[1]) /\ itemName[2] = "." /\ ks # {}
       THEN LET k == CHOOSE x \in ks : \A y \in ks : y <= x
            IN SubSeq(itemName, k + 1, Len(itemName))
       ELSE None

\* getInstalledVersions over the entries of the installation root
getInstalledVersions(installationRoot) ==
    {e.name : e \in {x \in installationRoot :
                        x.kind = "dir" /\ ReGroup1(x.name) \in BuildTypeSet}}

\* what setActiveLibraryVersion makes the well-known path route to
ActiveTarget(llvmVersion, buildType) ==
    IF platform = "Windows"
    THEN getInstallationDir \o <<"\\">> \o VersionDirName(llvmVersion, buildType)
             \o <<"\\bin\\llvm", "-", "config", ".", "exe">>
    ELSE getInstallationDir \o <<"/">> \o VersionDirName(llvmVersion, buildType)
             \o <<"/bin/llvm", "-", "config">>

(***************************************************************************)
(* The command lines given to the program, and what is on disk before the  *)
(* first of them.                                                          *)
(***************************************************************************)
Flags(l, r, i, n) == [list |-> l, remove |-> r, install |-> i, no_cleanup |-> n]

FlagSets ==
    {Flags(FALSE, FALSE, FALSE, FALSE), Flags(TRUE, FALSE, FALSE, FALSE),
     Flags(FALSE, TRUE, FALSE, FALSE), Flags(FALSE, FALSE, TRUE, FALSE),
     Flags(FALSE, FALSE, TRUE, TRUE)}

CliBuildTypes == {<<"Release">>, <<"MinSizeRel">>, <<"Fast">>}

ArgSets ==
    {[list |-> f.list, remove |-> f.remove, install |-> f.install,
      no_cleanup |-> f.no_cleanup, buildtype |-> b] : f \in FlagSets, b \in CliBuildTypes}

CliVersionStrings ==
    {<<>>, <<"hg">>, <<"3", ".", "4", ".", "1">>, <<"1", "0", ".", "0", ".", "0">>}

\* entries of the installation root that are no installed versions
Decoys ==
    {Entry(<<"3", ".", "4", ".", "1", "-", "Fast">>, "dir"),
     Entry(<<"3", ".", "0", "-", "Release">>, "file"),
     Entry(<<"3", ".", "4", ".", "1", "-", "Release", "-", "old">>, "dir"),
     Entry(<<"llvm", "-", "Release">>, "dir")}

\* a version installed by an earlier run of the program
Installed == {Entry(<<"3", ".", "4", ".", "1", "-", "MinSizeRel">>, "dir")}

\* an llvm-config at the well-known path that this program did not put there
ForeignTarget == <<"/usr/lib/llvm/bin/llvm", "-", "config">>

NoArgs == [list |-> FALSE, remove |-> FALSE, install |-> FALSE, no_cleanup |-> FALSE,
           buildtype |-> None]

\* nothing reported
NoOutput == [listed |-> {}, installDir |-> None]

NoLocals == [i |-> 0, cmakeGenerator |-> None, mingw |-> FALSE]

InitCli ==
    /\ args = NoArgs
    /\ exitCode = 0
    /\ cwd = {}
    /\ srcTree = {}
    /\ before = [root |-> root, cwd |-> {}, srcTree |-> {}, pointer |-> pointer]
    /\ procs = <<>>
    /\ exits = <<>>
    /\ output = NoOutput
    /\ locals = NoLocals
    /\ invocations = 0

Init ==
    /\ platform \in Platforms
    /\ root \in {{}, Decoys, Decoys \cup Installed}
    /\ pointer \in {None, ForeignTarget}
    /\ versionString = None
    /\ version = None
    /\ canonical = None
    /\ reparsed = None
    /\ prev = None
    /\ pc = "idle"
    /\ InitCli

(***************************************************************************)
(* __main__: argument validation and dispatch.                             *)
(***************************************************************************)
\* a new invocation with command line a and version string vs
Begin(a, vs) ==
    /\ pc \in {"idle", "done"}
    /\ invocations < MaxInvocations
    /\ args' = a
    /\ versionString' = vs
    /\ before' = [root |-> root, cwd |-> cwd, srcTree |-> srcTree, pointer |-> pointer]
    /\ invocations' = invocations + 1
    /\ locals' = NoLocals
    /\ UNCHANGED <<platform, canonical, reparsed, prev>>

\* argument checks that take any build type
ValidArgs_AnyBuildType(a, vs) ==
    /\ ~(a.list = FALSE /\ vs = <<>>)
    /\ ~(a.list = FALSE /\ fromVersionString(vs) = None)

\* the argument checks pass
ValidArgs(a, vs) ==
    /\ a.buildtype \in BuildTypeSet
    /\ ~(a.list = FALSE /\ vs = <<>>)
    /\ ~(a.list = FALSE /\ fromVersionString(vs) = None)

\* sys.exit(1) from the argument checks
InvalidArgs ==
    \E a \in ArgSets, vs \in CliVersionStrings :
        /\ Begin(a, vs)
        /\ ~ValidArgs(a, vs)
        /\ version' = IF a.buildtype \in BuildTypeSet THEN fromVersionString(vs) ELSE None
        /\ pc' = "done"
        /\ exitCode' = 1
        /\ output' = NoOutput
        /\ procs' = <<>>
        /\ exits' = <<>>
        /\ UNCHANGED <<cwd, srcTree, root, pointer>>

\* --list
List ==
    \E a \in ArgSets, vs \in CliVersionStrings :
        /\ Begin(a, vs)
        /\ ValidArgs(a, vs)
        /\ a.list = TRUE
        /\ version' = fromVersionString(vs)
        /\ output' = [listed |-> getInstalledVersions(root), installDir |-> None]
        /\ pc' = "done"
        /\ exitCode' = 0
        /\ procs' = <<>>
        /\ exits' = <<>>
        /\ UNCHANGED <<cwd, srcTree, root, pointer>>

\* --remove: removeLibraryVersion
Remove ==
    \E a \in ArgSets, vs \in CliVersionStrings :
        /\ Begin(a, vs)
        /\ ValidArgs(a, vs)
        /\ a.list = FALSE /\ a.remove = TRUE
        /\ version' = fromVersionString(vs)
        /\ LET libraryDir == VersionDirName(toStr(fromVersionString(vs)), a.buildtype)
           IN IF Entry(libraryDir, "dir") \in root
              THEN /\ root' = removeIfExists(root, libraryDir)
                   /\ exitCode' = 0
              ELSE /\ root' = root
                   /\ exitCode' = 1
        /\ output' = NoOutput
        /\ procs' = <<>>
        /\ exits' = <<>>
        /\ pc' = "done"
        /\ UNCHANGED <<cwd, srcTree, pointer>>

\* an activation that does not check that the version is installed
Activate_Unchecked ==
    \E a \in ArgSets, vs \in CliVersionStrings, rc \in {0, 1} :
        /\ Begin(a, vs)
        /\ ValidArgs(a, vs)
        /\ a.list = FALSE /\ a.remove = FALSE /\ a.install = FALSE
        /\ version' = fromVersionString(vs)
        /\ output' = NoOutput
        /\ pc' = "done"
        /\ UNCHANGED <<cwd, srcTree, root>>
        /\ IF platform = "Windows"
           THEN /\ rc = 0
                /\ pointer' = ActiveTarget(toStr(fromVersionString(vs)), a.buildtype)
                /\ exitCode' = 0
                /\ procs' = <<>>
                /\ exits' = <<>>
           ELSE /\ procs' = <<"ln">>
                /\ exits' = <<rc>>
                /\ exitCode' = rc
                /\ pointer' = IF rc = 0
                              THEN ActiveTarget(toStr(fromVersionString(vs)), a.buildtype)
                              ELSE None

\* no flag: check that the version is installed, then setActiveLibraryVersion
Activate ==
    \E a \in ArgSets, vs \in CliVersionStrings, rc \in {0, 1} :
        /\ Begin(a, vs)
        /\ ValidArgs(a, vs)
        /\ a.list = FALSE /\ a.remove = FALSE /\ a.install = FALSE
        /\ version' = fromVersionString(vs)
        /\ output' = NoOutput
        /\ pc' = "done"
        /\ UNCHANGED <<cwd, srcTree, root>>
        /\ LET llvmVersion == toStr(fromVersionString(vs))
               requestedVersionStr == VersionDirName(llvmVersion, a.buildtype)
           IN IF requestedVersionStr \notin getInstalledVersions(root)
              THEN /\ rc = 1
                   /\ exitCode' = 1
                   /\ pointer' = pointer
                   /\ procs' = <<>>
                   /\ exits' = <<>>
              ELSE IF platform = "Windows"
              \* the routing script is rewritten
              THEN /\ rc = 0
                   /\ pointer' = ActiveTarget(llvmVersion, a.buildtype)
                   /\ exitCode' = 0
                   /\ procs' = <<>>
                   /\ exits' = <<>>
              \* removeIfExists(symlinkPath), then ln -s, which may fail
              ELSE /\ exitCode' = rc
                   /\ pointer' = IF rc = 0 THEN ActiveTarget(llvmVersion, a.buildtype)
                                 ELSE None
                   /\ procs' = <<"ln">>
                   /\ exits' = <<rc>>

(***************************************************************************)
(* __main__ --install: verifyBuildPrerequisitesMet, download, build, and   *)
(* the finally clause.  Each external process is a step of its own.        *)
(***************************************************************************)
\* what no step of an invocation changes
Running == UNCHANGED <<platform, parserVars, args, before, invocations>>

InstallBegin ==
    \E a \in ArgSets, vs \in CliVersionStrings :
        /\ Begin(a, vs)
        /\ ValidArgs(a, vs)
        /\ a.list = FALSE /\ a.remove = FALSE /\ a.install = TRUE
        /\ version' = fromVersionString(vs)
        /\ pc' = "prereq"
        /\ exitCode' = 0
        /\ output' = NoOutput
        /\ procs' = <<>>
        /\ exits' = <<>>
        /\ UNCHANGED <<cwd, srcTree, root, pointer>>

\* the version probes of the required commands, in the order they are made
Prerequisites ==
    IF platform # "Windows"
    THEN <<"curl --version", "cmake --version", "tar --version">>
    ELSE <<"curl --version", "cmake --version">>

\* verifyBuildPrerequisitesMet: the first k probes succeed
VerifyPrereq ==
    /\ pc = "prereq"
    /\ \E k \in 0..Len(Prerequisites) :
          IF k = Len(Prerequisites)
          THEN /\ procs' = procs \o Prerequisites
               /\ exits' = exits \o [i \in 1..Len(Prerequisites) |-> 0]
               /\ pc' = "curl"
               /\ locals' = [locals EXCEPT !.i = 1]
               /\ exitCode' = exitCode
          ELSE /\ procs' = procs \o SubSeq(Prerequisites, 1, k + 1)
               /\ exits' = exits \o [i \in 1..(k + 1) |-> IF i <= k THEN 0 ELSE 1]
               /\ pc' = "finally"
               /\ locals' = locals
               /\ exitCode' = 1
    /\ UNCHANGED <<cwd, srcTree, root, pointer, output>>
    /\ Running

\* _downloadAndUnpackTarball: curl -f url -o filename
Curl ==
    /\ pc = "curl"
    /\ LET filename == tarballFilename(version, TarballNames[locals.i])
           written  == removeIfExists(cwd, filename) \cup {Entry(filename, "file")}
       IN \E rc \in {0, 1}, partial \in BOOLEAN :
            /\ procs' = Append(procs, "curl")
            /\ exits' = Append(exits, rc)
            /\ IF rc = 0
               THEN /\ partial = FALSE
                    /\ cwd' = written
                    /\ pc' = "unpack"
                    /\ exitCode' = exitCode
               ELSE /\ cwd' = IF partial THEN written ELSE cwd
                    /\ pc' = "finally"
                    /\ exitCode' = 1
    /\ UNCHANGED <<srcTree, root, pointer, output, locals>>
    /\ Running

\* _downloadAndUnpackTarball: unpack into tarballName + '-src', unlink the archive
Unpack ==
    /\ pc = "unpack"
    /\ LET tarballName == TarballNames[locals.i]
           filename    == tarballFilename(version, tarballName)
           destination == SrcDir(tarballName)
           next        == NextTarball(version, locals.i)
           unpacked    == removeIfExists(cwd, filename) \cup {Entry(destination, "dir")}
           Advance     == /\ pc' = IF next = 0 THEN "relocate" ELSE "curl"
                          /\ locals' = [locals EXCEPT !.i = next]
                          /\ exitCode' = exitCode
           Raise       == /\ pc' = "finally"
                          /\ locals' = locals
                          /\ exitCode' = 1
       IN IF platform = "Windows"
          \* tarfile: extractall and shutil.move of the top-level directory
          THEN \E ok \in BOOLEAN :
                 /\ procs' = procs
                 /\ exits' = exits
                 /\ IF ok THEN cwd' = unpacked /\ Advance
                          ELSE cwd' = cwd /\ Raise
          \* os.makedirs(destinationDir) raises when it exists
          ELSE IF Exists(cwd, destination)
          THEN /\ procs' = procs
               /\ exits' = exits
               /\ cwd' = cwd
               /\ Raise
          ELSE \E rc \in {0, 1} :
                 /\ procs' = Append(procs, "tar")
                 /\ exits' = Append(exits, rc)
                 /\ IF rc = 0 THEN cwd' = unpacked /\ Advance
                              ELSE cwd' = cwd \cup {Entry(destination, "dir")} /\ Raise
    /\ UNCHANGED <<srcTree, root, pointer, output>>
    /\ Running

\* where download() moves a tarball's tree inside ./llvm-src
SubPath(tarballName) ==
    IF tarballName = sClang THEN "tools/clang"
    ELSE IF tarballName = sCompilerRt THEN "projects/compiler-rt"
    ELSE "projects/libcxx"

\* download(): the shutil.move calls after the loop
Relocate ==
    /\ pc = "relocate"
    /\ LET moved == PresentTarballs(version) \ {sLLVM}
       IN /\ cwd' = {e \in cwd : e.name \notin {SrcDir(t) : t \in moved}}
          /\ srcTree' = srcTree \cup {SubPath(t) : t \in moved}
    /\ pc' = "build"
    /\ UNCHANGED <<root, pointer, output, locals, procs, exits, exitCode>>
    /\ Running

\* build(): the build directories and the choice of the CMake generator
BuildPrepare ==
    /\ pc = "build"
    /\ IF "build" \in srcTree
       \* os.makedirs(buildDir) raises
       THEN /\ pc' = "finally"
            /\ exitCode' = 1
            /\ UNCHANGED <<srcTree, locals, procs, exits>>
       ELSE IF platform # "Windows"
       THEN \E ninja \in BOOLEAN :
              /\ procs' = Append(procs, "ninja --version")
              /\ exits' = Append(exits, IF ninja THEN 0 ELSE 1)
              /\ locals' = [locals EXCEPT
                                !.cmakeGenerator =
                                    IF ninja THEN "Ninja" ELSE "Unix Makefiles"]
              /\ srcTree' = srcTree \cup {"build"}
              /\ pc' = "configure"
              /\ exitCode' = exitCode
       ELSE \E gpp1 \in BOOLEAN, gpp2 \in BOOLEAN :
              /\ procs' = procs \o <<"g++ -v", "g++ -v">>
              /\ exits' = exits \o <<IF gpp1 THEN 0 ELSE 1, IF gpp2 THEN 0 ELSE 1>>
              /\ IF ~gpp2
                 THEN /\ srcTree' = srcTree \cup {"build"}
                      /\ pc' = "configure"
                      /\ exitCode' = exitCode
                      /\ locals' = [locals EXCEPT
                                        !.cmakeGenerator =
                                            IF gpp1 THEN "Unix Makefiles"
                                            ELSE "NMake Makefiles"]
                 ELSE IF "build-tblgen" \in srcTree
                 \* os.makedirs(buildDirTG) raises
                 THEN /\ srcTree' = srcTree \cup {"build"}
                      /\ pc' = "finally"
                      /\ exitCode' = 1
                      /\ locals' = locals
                 ELSE /\ srcTree' = srcTree \cup {"build", "build-tblgen"}
                      /\ pc' = "tblgen"
                      /\ exitCode' = exitCode
                      /\ locals' = [locals EXCEPT
                                        !.i = 1,
                                        !.mingw = TRUE,
                                        !.cmakeGenerator =
                                            IF gpp1 THEN "Unix Makefiles"
                                            ELSE "NMake Makefiles"]
    /\ UNCHANGED <<cwd, root, pointer, output>>
    /\ Running

TblgenSteps == <<"cmake tblgen", "build llvm-tblgen", "build clang-tblgen">>

\* build(): the sub-build of llvm-tblgen and clang-tblgen under Windows with MinGW
Tblgen ==
    /\ pc = "tblgen"
    /\ \E rc \in {0, 1} :
          /\ procs' = Append(procs, TblgenSteps[locals.i])
          /\ exits' = Append(exits, rc)
          /\ IF rc # 0
             THEN pc' = "finally" /\ exitCode' = 1 /\ locals' = locals
             ELSE /\ exitCode' = exitCode
                  /\ IF locals.i = Len(TblgenSteps)
                     THEN pc' = "configure" /\ locals' = locals
                     ELSE pc' = "tblgen" /\ locals' = [locals EXCEPT !.i = locals.i + 1]
    /\ UNCHANGED <<cwd, srcTree, root, pointer, output>>
    /\ Running

\* a call that goes on to next whatever the exit code
RunOrFail_IgnoreExit(command, next) ==
    \E rc \in {0, 1} :
        /\ procs' = Append(procs, command)
        /\ exits' = Append(exits, rc)
        /\ pc' = next
        /\ exitCode' = exitCode

\* Utility.runOrFail of one build step: on exit code 0 go on to next
RunOrFail(command, next) ==
    \E rc \in {0, 1} :
        /\ procs' = Append(procs, command)
        /\ exits' = Append(exits, rc)
        /\ IF rc # 0 THEN pc' = "finally" /\ exitCode' = 1
                     ELSE pc' = next /\ exitCode' = exitCode

\* build(): generate the makefile
Configure ==
    /\ pc = "configure"
    /\ RunOrFail("configure", "compile")
    /\ UNCHANGED <<cwd, srcTree, root, pointer, output, locals>>
    /\ Running

\* build(): cmake --build .
Compile ==
    /\ pc = "compile"
    /\ RunOrFail("compile", "install")
    /\ UNCHANGED <<cwd, srcTree, root, pointer, output, locals>>
    /\ Running

\* build(): cmake --build . --target install, which fills installDir
InstallStep ==
    /\ pc = "install"
    /\ LET name == VersionDirName(toStr(version), args.buildtype)
       IN \E rc \in {0, 1}, partial \in BOOLEAN :
            /\ procs' = Append(procs, "install")
            /\ exits' = Append(exits, rc)
            /\ IF rc = 0
               THEN /\ partial = FALSE
                    /\ Entry(name, "file") \notin root
                    /\ root' = root \cup {Entry(name, "dir")}
                    /\ pc' = "postinstall"
                    /\ exitCode' = exitCode
               ELSE /\ partial => Entry(name, "file") \notin root
                    /\ root' = IF partial THEN root \cup {Entry(name, "dir")} ELSE root
                    /\ pc' = "finally"
                    /\ exitCode' = 1
    /\ UNCHANGED <<cwd, srcTree, pointer, output, locals>>
    /\ Running

\* build(): the copy of libstdc++-6.dll, the cleanup, and the return of installDir
BuildFinish ==
    /\ pc = "postinstall"
    /\ IF platform = "Windows"
       THEN \E gpp3 \in BOOLEAN, rc \in {0, 1} :
              IF gpp3
              THEN /\ procs' = procs \o <<"g++ -v", "where g++">>
                   /\ exits' = exits \o <<0, rc>>
              ELSE /\ rc = 1
                   /\ procs' = Append(procs, "g++ -v")
                   /\ exits' = Append(exits, 1)
       ELSE procs' = procs /\ exits' = exits
    /\ IF args.no_cleanup = FALSE
       THEN cwd' = cleanupFiles(version).cwd /\ srcTree' = cleanupFiles(version).srcTree
       ELSE UNCHANGED <<cwd, srcTree>>
    /\ output' = [listed |-> {}, installDir |-> InstallDir(version, args.buildtype)]
    /\ exitCode' = 0
    /\ pc' = "finally"
    /\ UNCHANGED <<root, pointer, locals>>
    /\ Running

\* a finally clause that cleans nothing
Finally_NoCleanup ==
    /\ pc = "finally"
    /\ pc' = "done"
    /\ UNCHANGED <<cwd, srcTree, root, pointer, output, locals, procs, exits, exitCode>>
    /\ Running

\* the finally clause of --install
Finally ==
    /\ pc = "finally"
    /\ IF args.no_cleanup = FALSE
       THEN cwd' = cleanupFiles(version).cwd /\ srcTree' = cleanupFiles(version).srcTree
       ELSE UNCHANGED <<cwd, srcTree>>
    /\ pc' = "done"
    /\ UNCHANGED <<root, pointer, output, locals, procs, exits, exitCode>>
    /\ Running

Next ==
    \/ InvalidArgs
    \/ List
    \/ Remove
    \/ Activate
    \/ InstallBegin
    \/ VerifyPrereq
    \/ Curl
    \/ Unpack
    \/ Relocate
    \/ BuildPrepare
    \/ Tblgen
    \/ Configure
    \/ Compile
    \/ InstallStep
    \/ BuildFinish
    \/ Finally

Spec == Init /\ [][Next]_vars

(***************************************************************************)
(* Version strings given to the parser.                                    *)
(***************************************************************************)
\* one dot-free component: a plain number, or something int() treats otherwise
Tokens ==
    {PyStr(n) : n \in 0..MaxNum}
        \cup {<<>>, <<"hg">>, <<"-", "3">>, <<"+", "3">>, <<"0", "3">>}

\* components after the third never reach the version rules
ExtraTokens == {<<"1">>, <<"hg">>}

RECURSIVE Join(_)
Join(comps) ==
    IF Len(comps) = 1 THEN comps[1]
    ELSE comps[1] \o <<".">> \o Join(Tail(comps))

ComponentLists ==
    UNION {
        {c \in [1..n -> Tokens \cup ExtraTokens] :
            \A i \in 1..n : IF i > 3 THEN c[i] \in ExtraTokens ELSE c[i] \in Tokens}
        : n \in 1..MaxComponents}

VersionStrings == {Join(c) : c \in ComponentLists}

(***************************************************************************)
(* The parser on its own: one call, then the round trip through str().     *)
(***************************************************************************)
InitParse ==
    /\ platform \in Platforms
    /\ versionString \in VersionStrings
    /\ version = None
    /\ canonical = None
    /\ reparsed = None
    /\ prev = None
    /\ pc = "start"
    /\ root = {}
    /\ pointer = None
    /\ InitCli

Parse ==
    /\ pc = "start"
    /\ version' = fromVersionString(versionString)
    /\ pc' = "parsed"
    /\ UNCHANGED <<platform, versionString, canonical, reparsed, prev, cliVars>>

Reparse ==
    /\ pc = "parsed"
    /\ version # None
    /\ canonical' = toStr(version)
    /\ reparsed' = fromVersionString(toStr(version))
    /\ pc' = "reparsed"
    /\ UNCHANGED <<platform, versionString, version, prev, cliVars>>

NextParse == Parse \/ Reparse

SpecParse == InitParse /\ [][NextParse]_vars

(***************************************************************************)
(* Consecutive calls of the parser, as in the loop over version strings of *)
(* src/tests/run-tests.py: the state keeps the previous call's result.     *)
(***************************************************************************)
PairStrings ==
    {Join(c) : c \in UNION {[1..n -> {PyStr(k) : k \in 0..MaxPairNum}] : n \in 2..3}}

InitPair ==
    /\ platform \in Platforms
    /\ versionString \in PairStrings
    /\ version = None
    /\ canonical = None
    /\ reparsed = None
    /\ prev = None
    /\ pc = "start"
    /\ root = {}
    /\ pointer = None
    /\ InitCli

ParseNext ==
    /\ pc = "parsed"
    /\ prev' = version
    /\ versionString' \in PairStrings
    /\ version' = None
    /\ pc' = "start"
    /\ UNCHANGED <<platform, canonical, reparsed, cliVars>>

NextPair == Parse \/ ParseNext

SpecPair == InitPair /\ [][NextPair]_vars

(***************************************************************************)
(* The order of versions: major, then minor, then revision, an absent      *)
(* revision below every present one.                                       *)
(***************************************************************************)
NoRev == 0 - 1

LexLess(a, b) ==
    \/ a[1] < b[1]
    \/ a[1] = b[1] /\ a[2] < b[2]
    \/ a[1] = b[1] /\ a[2] = b[2] /\ a[3] < b[3]

Key(v) == <<v.major, v.minor, IF v.revision = None THEN NoRev ELSE v.revision[1]>>

\* v is at or above major.minor[.revision]
AtLeast(v, major, minor, revision) == ~LexLess(Key(v), <<major, minor, revision>>)

Below(v, major, minor, revision) == LexLess(Key(v), <<major, minor, revision>>)

\* the input read as dot-separated integers
InputInts ==
    LET comps == PySplit(versionString, ".")
    IN [i \in 1..Len(comps) |-> PyInt(comps[i])]

InputWellFormed ==
    /\ Len(InputInts) \in {2, 3}
    /\ \A i \in 1..Len(InputInts) : InputInts[i] # None /\ InputInts[i][1] >= 0

InputKey ==
    <<InputInts[1][1], InputInts[2][1],
      IF Len(InputInts) = 3 THEN InputInts[3][1] ELSE NoRev>>

(***************************************************************************)
(* C1: for every input of 2 or 3 non-negative integer components at or     *)
(* above 2.6, the parser accepts it if and only if the revision component  *)
(* is present exactly when the version is >= 3.4.1.                        *)
(***************************************************************************)
C1_RevisionExactlyFrom341 ==
    (pc = "parsed" /\ InputWellFormed /\ ~LexLess(InputKey, <<2, 6, NoRev>>))
        => ((version # None)
                <=> ((Len(InputInts) = 3) <=> ~LexLess(InputKey, <<3, 4, 1>>)))

(***************************************************************************)
(* Which command a finished or running invocation was dispatched to.       *)
(***************************************************************************)
PassedValidation == args.buildtype \in BuildTypeSet /\ version # None

InstallInvocation ==
    PassedValidation /\ args.list = FALSE /\ args.remove = FALSE /\ args.install = TRUE

ActivateInvocation ==
    PassedValidation /\ args.list = FALSE /\ args.remove = FALSE /\ args.install = FALSE

\* the part of a name after its final '-'
FinalPart(name) ==
    LET ks == {k \in 1..Len(name) : name[k] = "-"}
    IN IF ks = {} THEN name
       ELSE SubSeq(name, (CHOOSE x \in ks : \A y \in ks : y <= x) + 1, Len(name))

(***************************************************************************)
(* C2: after an --install run that did not disable cleanup, whichever      *)
(* stage it ended at, the working directory holds no archive file and no   *)
(* '<role>-src' staging directory of any role the version has.             *)
(***************************************************************************)
C2_CleanupAfterInstall ==
    (pc = "done" /\ InstallInvocation /\ args.no_cleanup = FALSE)
        => \A t \in PresentTarballs(version) :
               /\ ~Exists(cwd, tarballFilename(version, t))
               /\ ~Exists(cwd, SrcDir(t))

\* an install that ended at a failed unpack, with an archive and a staging
\* directory on disk when the finally clause ran
C2_Witness ==
    /\ pc = "done" /\ InstallInvocation /\ args.no_cleanup = FALSE
    /\ exitCode = 1
    /\ procs # <<>> /\ procs[Len(procs)] = "tar"
    /\ cwd = before.cwd

(***************************************************************************)
(* C3: after a successful install of an accepted version v with build type *)
(* b, the list of installed versions contains '<v>-<b>'; and the list      *)
(* never holds a name that is no directory or whose part after the final   *)
(* '-' is not one of the four build types.                                 *)
(***************************************************************************)
C3_InstalledIsListed ==
    /\ (pc = "done" /\ InstallInvocation /\ exitCode = 0)
           => VersionDirName(toStr(version), args.buildtype) \in getInstalledVersions(root)
    /\ \A n \in getInstalledVersions(root) :
           Entry(n, "dir") \in root /\ FinalPart(n) \in BuildTypeSet

(***************************************************************************)
(* C4: activating a version and build type whose name is not in the list   *)
(* of installed versions exits with code 1 and leaves the active-version   *)
(* pointer as it was.                                                      *)
(***************************************************************************)
C4_ActivateNotInstalled ==
    (/\ pc = "done"
     /\ ActivateInvocation
     /\ VersionDirName(toStr(version), args.buildtype)
            \notin getInstalledVersions(before.root))
        => (exitCode = 1 /\ pointer = before.pointer)

C4_Witness ==
    /\ pc = "done"
    /\ ActivateInvocation
    /\ VersionDirName(toStr(version), args.buildtype)
           \notin getInstalledVersions(before.root)
    /\ before.pointer = ForeignTarget
    /\ pointer = ForeignTarget
    /\ exitCode = 1

(***************************************************************************)
(* C5: for every accepted version the archive extension is '.tgz' for 2.7  *)
(* through 2.9, '.tar.gz' for 2.6 and 3.0, '.src.tar.gz' for 3.1 through   *)
(* 3.4.x, and '.src.tar.xz' for 3.5.0 and every later version.             *)
(***************************************************************************)
C5_ExtensionBands ==
    version # None =>
        /\ (AtLeast(version, 2, 7, NoRev) /\ Below(version, 2, 10, NoRev))
               => version.extension = <<".", "tgz">>
        /\ (<<version.major, version.minor>> \in {<<2, 6>>, <<3, 0>>})
               => version.extension = <<".", "tar", ".", "gz">>
        /\ (AtLeast(version, 3, 1, NoRev) /\ Below(version, 3, 5, NoRev))
               => version.extension = <<".", "src", ".", "tar", ".", "gz">>
        /\ AtLeast(version, 3, 5, 0)
               => version.extension = <<".", "src", ".", "tar", ".", "xz">>

C5_Witness ==
    /\ version # None
    /\ Key(version) = <<3, 4, 2>>
    /\ version.extension = <<".", "src", ".", "tar", ".", "gz">>

(***************************************************************************)
(* C6 (as claimed): the frontend base-name is a step function of the       *)
(* version with a single threshold: no accepted version named 'cfe' is     *)
(* below an accepted version named 'clang'.                                *)
(***************************************************************************)
C6_SingleThreshold ==
    (prev # None /\ version # None /\ LexLess(Key(prev), Key(version)))
        => ~(prev.tarballs[sClang] = sCfe /\ version.tarballs[sClang] = sClang)

(***************************************************************************)
(* C6 (amended): the frontend role is present for every accepted version;  *)
(* its base-name is 'clang' for every version below 3.3 and for 3.4        *)
(* without a revision, and 'cfe' for every other accepted version (3.3,    *)
(* 3.4.x with a revision, 3.5.0 and later).                                *)
(***************************************************************************)
C6_FrontendName ==
    version # None =>
        /\ version.tarballs[sClang] # None
        /\ IF Below(version, 3, 3, NoRev) \/ Key(version) = <<3, 4, NoRev>>
           THEN version.tarballs[sClang] = sClang
           ELSE version.tarballs[sClang] = sCfe

C6_Witness ==
    /\ prev # None /\ version # None
    /\ Key(prev) = <<3, 3, NoRev>> /\ prev.tarballs[sClang] = sCfe
    /\ Key(version) = <<3, 4, NoRev>> /\ version.tarballs[sClang] = sClang

(***************************************************************************)
(* C7: for every accepted version and host platform, the runtime role      *)
(* (compiler-rt) is present exactly when the version is >= 3.1 and the     *)
(* host is not Windows.                                                    *)
(***************************************************************************)
C7_RuntimePresence ==
    version # None =>
        ((version.tarballs[sCompilerRt] # None)
            <=> (platform # "Windows" /\ AtLeast(version, 3, 1, NoRev)))

C7_Witness ==
    /\ version # None
    /\ platform = "Windows"
    /\ AtLeast(version, 3, 1, NoRev)
    /\ version.tarballs[sCompilerRt] = None

(***************************************************************************)
(* C8: for every accepted version and host platform, the standard-library  *)
(* role (libcxx) is present if and only if the host is Darwin and the      *)
(* version is >= 3.3.                                                      *)
(***************************************************************************)
C8_StdlibPresence ==
    version # None =>
        ((version.tarballs[sLibcxx] # None)
            <=> (platform = "Darwin" /\ AtLeast(version, 3, 3, NoRev)))

C8_Witness ==
    /\ version # None
    /\ platform = "Darwin"
    /\ version.major > 3
    /\ version.tarballs[sLibcxx] = sLibcxx

(***************************************************************************)
(* C9: for every accepted version and every role it has, the version       *)
(* string in the role's filename and URL is the canonical string, except   *)
(* for 3.4.1 and 3.4.2 only, where compiler-rt and libcxx use '3.4'.       *)
(***************************************************************************)
C9_RoleVersionString ==
    version # None =>
        \A i \in 1..Len(TarballNames) :
            LET t == TarballNames[i]
                expected ==
                    IF Key(version) \in {<<3, 4, 1>>, <<3, 4, 2>>}
                       /\ t \in {sCompilerRt, sLibcxx}
                    THEN <<"3", ".", "4">>
                    ELSE toStr(version)
            IN version.tarballs[t] # None =>
                /\ tarballFilename(version, t)
                       = version.tarballs[t] \o <<"-">> \o expected \o version.extension
                /\ tarballURL(version, t)
                       = ReleasesURL \o expected \o <<"/">> \o tarballFilename(version, t)

(***************************************************************************)
(* C10: for every accepted input, parsing the canonical string of the      *)
(* parsed version yields the same version.                                 *)
(***************************************************************************)
C10_RoundTrip ==
    pc = "reparsed" =>
        /\ reparsed # None
        /\ reparsed.major = version.major
        /\ reparsed.minor = version.minor
        /\ reparsed.revision = version.revision
        /\ reparsed = version

C10_Witness ==
    /\ pc = "reparsed"
    /\ canonical # versionString
    /\ version.revision # None
    /\ reparsed = version

\* the input has a component int() does not take
InputNonInteger == \E i \in 1..Len(InputInts) : InputInts[i] = None

InputNegative ==
    \E i \in 1..Len(InputInts) : InputInts[i] # None /\ InputInts[i][1] < 0

\* the first two components are integers that put the version below 2.6
InputBelowMinimum ==
    /\ Len(InputInts) >= 2
    /\ InputInts[1] # None
    /\ InputInts[2] # None
    /\ \/ InputInts[1][1] < 2
       \/ InputInts[1][1] = 2 /\ InputInts[2][1] < 6

(***************************************************************************)
(* C11: for every input that has a non-integer component, a component      *)
(* count other than 2 or 3, a negative component, or a version below 2.6,  *)
(* the parser returns None, the one invalid outcome.                       *)
(***************************************************************************)
C11_InvalidIsNone ==
    (/\ pc = "parsed"
     /\ \/ InputNonInteger
        \/ Len(InputInts) \notin {2, 3}
        \/ InputNegative
        \/ InputBelowMinimum)
        => version = None

\* '2.5' is rejected: two non-negative integers, below the minimum only
C11_Witness ==
    /\ pc = "parsed"
    /\ versionString = <<"2", ".", "5">>
    /\ ~InputNonInteger
    /\ ~InputNegative
    /\ InputBelowMinimum
    /\ version = None

\* the command line of the current invocation names a build type outside the
\* four, or asks for removal, installation or activation of a version string
\* that is empty or that the parser rejects
RejectedInvocation ==
    /\ invocations > 0
    /\ \/ args.buildtype \notin {<<"Release">>, <<"Debug">>, <<"RelWithDebInfo">>,
                                 <<"MinSizeRel">>}
       \/ /\ \/ args.remove
             \/ args.install
             \/ ~(args.list \/ args.remove \/ args.install)
          /\ versionString = <<>> \/ fromVersionString(versionString) = None

(***************************************************************************)
(* C12: an invocation with an invalid build type or, for removal,          *)
(* installation and activation, an empty or rejected version string ends   *)
(* with exit code 1, having run no external process and having left the    *)
(* installation root, the working directory, the source tree and the       *)
(* active-version pointer as they were; it is never at a later step.       *)
(***************************************************************************)
C12_RejectedBeforeEffects ==
    RejectedInvocation =>
        /\ pc = "done"
        /\ exitCode = 1
        /\ procs = <<>>
        /\ root = before.root
        /\ cwd = before.cwd
        /\ srcTree = before.srcTree
        /\ pointer = before.pointer

\* '--install 3.4.1 Fast' against a root and a pointer that have content
C12_Witness ==
    /\ RejectedInvocation
    /\ pc = "done"
    /\ args.install
    /\ args.buildtype = <<"Fast">>
    /\ fromVersionString(versionString) # None
    /\ exitCode = 1
    /\ procs = <<>>
    /\ root # {}
    /\ pointer # None

(***************************************************************************)
(* C13: on a host other than Windows, when a pointer existed before an     *)
(* activation, a pointer exists after it, whether or not the link was      *)
(* created, and refers to its previous target or to the llvm-config of the *)
(* requested version.                                                      *)
(***************************************************************************)
C13_PointerSurvivesActivate ==
    (/\ pc = "done"
     /\ ActivateInvocation
     /\ platform # "Windows"
     /\ before.pointer # None)
        => /\ pointer # None
           /\ pointer \in {before.pointer, ActiveTarget(toStr(version), args.buildtype)}

\* the positions in procs of the three steps of build()
StepPositions == {i \in 1..Len(procs) : procs[i] \in {"configure", "compile", "install"}}

\* the k-th of them
StepPosition(k) ==
    CHOOSE i \in StepPositions : Cardinality({j \in StepPositions : j <= i}) = k

(***************************************************************************)
(* C14: the build steps run are configure, then compile, then install, in  *)
(* that order and each at most once; a step is run only after every        *)
(* earlier step exited with 0; after a step exits non-zero no further      *)
(* process is run, the invocation fails and no installation directory is   *)
(* returned; the installation directory returned is that of the version    *)
(* and build type under the installation root, and it is returned only     *)
(* after all three steps exited with 0.                                    *)
(***************************************************************************)
C14_BuildStepsInOrder ==
    /\ Len(exits) = Len(procs)
    /\ Cardinality(StepPositions) <= 3
    /\ \A k \in 1..Cardinality(StepPositions) :
          procs[StepPosition(k)] = <<"configure", "compile", "install">>[k]
    /\ \A i, j \in StepPositions : i < j => exits[i] = 0
    /\ \A i \in StepPositions :
          exits[i] # 0 =>
              /\ i = Len(procs)
              /\ pc \in {"finally", "done"}
              /\ exitCode = 1
              /\ output.installDir = None
    /\ output.installDir # None =>
          /\ Cardinality(StepPositions) = 3
          /\ \A i \in StepPositions : exits[i] = 0
          /\ output.installDir
                 = getInstallationDir \o osSep \o toStr(version) \o <<"-">>
                       \o args.buildtype

\* a finished installation whose three steps all exited with 0
C14_Witness ==
    /\ pc = "done"
    /\ InstallInvocation
    /\ Cardinality(StepPositions) = 3
    /\ \A i \in StepPositions : exits[i] = 0
    /\ output.installDir # None
    /\ exitCode = 0

====
